---- MODULE Spec2Model ----
(***************************************************************************)
(* Model of cotk/metric/metric.py: the open/closed lifecycle of MetricBase *)
(* and the composition of evaluators in MetricChain (add_metric, forward,  *)
(* close).  Every call of the public interface is one atomic action; the   *)
(* effect of a call, nested calls on children included, is computed by the *)
(* operators MetricBase_forward, MetricBase_close, MetricChain_forward and *)
(* MetricChain_close, which follow the statements of the methods.          *)
(***************************************************************************)
EXTENDS Integers, Sequences, FiniteSets, TLC

(* ---------------------------------------------------------------- bounds *)

\* Total number of successful add_metric calls in a run.
MaxRegistrations == 3

\* Number of frames above the caller the interpreter allows before it raises
\* RecursionError (sys.getrecursionlimit(), scaled down).  e.forward(data)
\* takes one frame, and in MetricChain.forward super().forward(data) takes
\* one more.
RecursionLimit == 3

(* --------------------------------------------------------------- objects *)

\* Instances of MetricChain.
Chains == {1, 2}

\* Instances of MetricBase that are not chains.
Leaves == {3, 4}

\* Every object for which isinstance(x, MetricBase) holds.
Evals == Chains \cup Leaves

\* An object that is not a MetricBase (an argument add_metric rejects).
NotAMetric == [cls |-> "object"]

\* add_metric arguments: evaluators are passed by reference.
Ref(e) == [cls |-> "MetricBase", id |-> e]

MetricArgs == {Ref(e) : e \in Evals} \cup {NotAMetric}

\* Values passed to forward: two dict batches and a value that is no dict.
Batches == {[type |-> "dict", val |-> 1], [type |-> "dict", val |-> 2]}

NonDicts == {[type |-> "list", val |-> 1]}

DataValues == Batches \cup NonDicts

NoData == [type |-> "absent", val |-> 0]

\* isinstance(data, dict)
IsDict(data) == data.type = "dict"

\* isinstance(metric, MetricBase)
IsMetric(metric) == metric.cls = "MetricBase"

(* ---------------------------------------------------------- dict results *)

\* The literal {} returned by MetricBase.close.
EmptyDict == [k \in {} |-> 0]

\* What the classes of the leaf evaluators add to the base result of close:
\* nothing (both leaves are plain MetricBase objects), or {"a": 1} for the
\* first leaf and {"a": 2, "b": 3} for the second.
EmitChoices ==
  {[e \in Leaves |-> EmptyDict],
   [e \in Leaves |-> IF e = 3 THEN [k \in {"a"} |-> 1]
                              ELSE [k \in {"a", "b"} |-> IF k = "a" THEN 2 ELSE 3]]}

\* Mutation of res.update(other): a key res already has keeps its value.
DictUpdate_keep_first(res, other) ==
  [k \in (DOMAIN res) \cup (DOMAIN other) |-> IF k \in DOMAIN res THEN res[k] ELSE other[k]]

\* res.update(other): keys of other overwrite those of res.
DictUpdate(res, other) ==
  [k \in (DOMAIN res) \cup (DOMAIN other) |-> IF k \in DOMAIN other THEN other[k] ELSE res[k]]

(* ----------------------------------------------------------------- state *)

VARIABLES
  closed,       \* closed[e]: the field self.closed of evaluator e
  metric_list,  \* metric_list[c]: the field self.metric_list of chain c
  emits,        \* emits[e]: what leaf e's class adds to the result of close
  last,         \* the call made last: operation, receiver, argument, outcome
  accumulator,  \* accumulator[h]: the running value of UnorderedSha256 object h
  fed,          \* fed[e]: the items given to e._hash_relevant_data so far, in order
  hash_call,    \* the last fingerprint call: what it was and what it returned
  stack,        \* stack[t]: the frames of the call thread t is executing
  outcome       \* outcome[t]: how the last call of thread t ended

\* The fields of the evaluators and the record of the last lifecycle call.
mvars == <<closed, metric_list, emits, last>>

\* The fingerprint accumulators and the record of the last fingerprint call.
hvars == <<accumulator, fed, hash_call>>

\* The calls in progress, statement by statement.
tvars == <<stack, outcome>>

vars == <<closed, metric_list, emits, last, accumulator, fed, hash_call, stack, outcome>>

NoExc == "none"

\* One entry of the trace of a call, made in the frame at the given depth
\* (the caller's call has depth 1, the calls a chain makes on its children
\* have depth 2, and so on).
\*   "forward":  e.forward(data) was entered
\*   "accepted": MetricBase.forward ran to its end on e (both checks passed)
\*   "close":    e.close() was entered
\*   "closed":   self.closed = True was executed on e
\*   "raise":    an exception was raised in a method of e
Ev(op, e, depth, data, exc) ==
  [op |-> op, obj |-> e, depth |-> depth, data |-> data, exc |-> exc]

\* The running state of a call: the fields it may write, what it has done so
\* far, the exception in flight and the value returned.
Frame(c) == [closed |-> c, log |-> << >>, exc |-> NoExc, ret |-> EmptyDict]

\* raise exc, in a method of e.
Raise(s, e, depth, exc) ==
  [s EXCEPT !.exc = exc, !.ret = EmptyDict,
            !.log = Append(@, Ev("raise", e, depth, NoData, exc))]

Registrations == Len(metric_list[1]) + Len(metric_list[2])

(* ------------------------------------------------------------ MetricBase *)

\* MetricBase.__init__: a new evaluator is open.
MetricBase_init == [e \in Evals |-> FALSE]

\* Mutation of MetricBase.forward: the closed check is missing.
MetricBase_forward_no_closed_check(s, e, data, depth) ==
  IF ~IsDict(data)
    THEN Raise(s, e, depth, "TypeError")
    ELSE [s EXCEPT !.log = Append(@, Ev("accepted", e, depth, data, NoExc))]

\* Mutation of MetricBase.forward: the type check comes first.
MetricBase_forward_type_check_first(s, e, data, depth) ==
  IF ~IsDict(data)
    THEN Raise(s, e, depth, "TypeError")
    ELSE IF s.closed[e]
      THEN Raise(s, e, depth, "ValueError")
      ELSE [s EXCEPT !.log = Append(@, Ev("accepted", e, depth, data, NoExc))]

\* MetricBase.forward(self, data): the closed check, then the type check.
MetricBase_forward(s, e, data, depth) ==
  IF s.closed[e]
    THEN Raise(s, e, depth, "ValueError")
    ELSE IF ~IsDict(data)
      THEN Raise(s, e, depth, "TypeError")
      ELSE [s EXCEPT !.log = Append(@, Ev("accepted", e, depth, data, NoExc))]

\* Mutation of MetricBase.close: the result is returned but the flag is not set.
MetricBase_close_flag_not_set(s, e, depth) ==
  IF ~s.closed[e]
    THEN [s EXCEPT !.ret = EmptyDict]
    ELSE Raise(s, e, depth, "RuntimeError")

\* MetricBase.close(self): closes an open evaluator and returns {}; raises
\* RuntimeError on a closed one.
MetricBase_close(s, e, depth) ==
  IF ~s.closed[e]
    THEN [s EXCEPT !.closed[e] = TRUE,
                   !.log = Append(@, Ev("closed", e, depth, NoData, NoExc)),
                   !.ret = EmptyDict]
    ELSE Raise(s, e, depth, "RuntimeError")

\* close() of a leaf evaluator: the base close, then the results of its class.
Leaf_close(s, e, depth) ==
  LET r == MetricBase_close(s, e, depth)
  IN  IF r.exc # NoExc THEN r ELSE [r EXCEPT !.ret = DictUpdate(r.ret, emits[e])]

(* ----------------------------------------------------------- MetricChain *)

\* MetricChain.__init__: no children.
MetricChain_init == [c \in Chains |-> << >>]

RECURSIVE forward(_, _, _, _)
RECURSIVE MetricChain_forward_loop(_, _, _, _, _)

\* Mutation of the loop of MetricChain.forward: the exception of a child is
\* kept and the remaining children are still called.
MetricChain_forward_loop_goes_on(s, c, i, data, depth) ==
  IF i > Len(metric_list[c])
    THEN s
    ELSE LET r == forward([s EXCEPT !.exc = NoExc], metric_list[c][i], data, depth + 1)
             kept == IF s.exc # NoExc THEN s.exc ELSE r.exc
         IN  MetricChain_forward_loop([r EXCEPT !.exc = kept], c, i + 1, data, depth)

\* for metric in self.metric_list: metric.forward(data)
\* i is the position of the next child; an exception ends the loop.
MetricChain_forward_loop(s, c, i, data, depth) ==
  IF i > Len(metric_list[c])
    THEN s
    ELSE LET r == forward(s, metric_list[c][i], data, depth + 1)
         IN  IF r.exc # NoExc
               THEN r
               ELSE MetricChain_forward_loop(r, c, i + 1, data, depth)

\* Mutation of MetricChain.forward: the children are called first and
\* super().forward(data) after them.
MetricChain_forward_children_first(s, c, data, depth) ==
  LET r == MetricChain_forward_loop(s, c, 1, data, depth)
  IN  IF r.exc # NoExc THEN r ELSE MetricBase_forward(r, c, data, depth)

\* Mutation of MetricChain.forward: super().forward(data) is not called.
MetricChain_forward_no_super(s, c, data, depth) ==
  MetricChain_forward_loop(s, c, 1, data, depth)

\* MetricChain.forward(self, data): super().forward(data), then the loop.
\* The call of super().forward needs the frame depth + 1; without it the
\* RecursionError is raised here, in MetricChain.forward, before any check.
MetricChain_forward(s, c, data, depth) ==
  IF depth + 1 > RecursionLimit
    THEN Raise(s, c, depth, "RecursionError")
    ELSE LET r == MetricBase_forward(s, c, data, depth)
         IN  IF r.exc # NoExc THEN r ELSE MetricChain_forward_loop(r, c, 1, data, depth)

\* e.forward(data), dispatched on the class of e.  depth is the frame the
\* call takes, counted from the caller.  The interpreter refuses a frame
\* beyond RecursionLimit at every call; a child never meets that, because
\* super().forward of the chain that calls it took a frame at the same depth
\* before.
forward(s, e, data, depth) ==
  IF depth > RecursionLimit
    THEN Raise(s, e, depth, "RecursionError")
    ELSE LET s1 == [s EXCEPT !.log = Append(@, Ev("forward", e, depth, data, NoExc))]
         IN  IF e \in Chains
               THEN MetricChain_forward(s1, e, data, depth)
               ELSE MetricBase_forward(s1, e, data, depth)

RECURSIVE close(_, _, _)
RECURSIVE MetricChain_close_loop(_, _, _, _)

\* for metric in self.metric_list: res.update(metric.close())
\* s.ret holds res; an exception ends the loop.
MetricChain_close_loop(s, c, i, depth) ==
  IF i > Len(metric_list[c])
    THEN s
    ELSE LET r == close(s, metric_list[c][i], depth + 1)
         IN  IF r.exc # NoExc
               THEN r
               ELSE MetricChain_close_loop([r EXCEPT !.ret = DictUpdate(s.ret, r.ret)],
                                           c, i + 1, depth)

\* MetricChain.close(self): res = super().close(), then the loop, return res.
MetricChain_close(s, c, depth) ==
  LET r == MetricBase_close(s, c, depth)
  IN  IF r.exc # NoExc THEN r ELSE MetricChain_close_loop(r, c, 1, depth)

\* e.close(), dispatched on the class of e.  A chain is closed before its
\* children are visited, so a chain is entered at most twice and the nesting
\* of close frames is bounded by the number of chains.
close(s, e, depth) ==
  LET s1 == [s EXCEPT !.log = Append(@, Ev("close", e, depth, NoData, NoExc))]
  IN  IF e \in Chains THEN MetricChain_close(s1, e, depth) ELSE Leaf_close(s1, e, depth)

\* Mutation of MetricChain.add_metric: the metric is inserted at the front.
MetricChain_add_metric_at_front(c, metric) ==
  IF ~IsMetric(metric)
    THEN [list |-> metric_list[c], exc |-> "TypeError"]
    ELSE [list |-> <<metric.id>> \o metric_list[c], exc |-> NoExc]

\* MetricChain.add_metric(self, metric): the new value of self.metric_list
\* and the exception raised.
MetricChain_add_metric(c, metric) ==
  IF ~IsMetric(metric)
    THEN [list |-> metric_list[c], exc |-> "TypeError"]
    ELSE [list |-> Append(metric_list[c], metric.id), exc |-> NoExc]

(* ----------------------------------------------------------- fingerprint *)

\* Total number of items given to _hash_relevant_data in a run.
MaxItems == 5

\* Length of one data_list.
MaxListLen == 2

\* Width of the digest: digests are the numbers 0 .. Modulus - 1 (2^256 for
\* SHA-256, scaled down so that a stream of MaxItems items can wrap around).
Modulus == 5

\* The items of a data_list: the int 1 and the str '1'.
Items == {[type |-> "int", val |-> 1], [type |-> "str", val |-> 1]}

SeqsUpTo(S, n) == UNION {[1..k -> S] : k \in 0..n}

\* The data_list arguments of _hash_relevant_data.
DataLists == SeqsUpTo(Items, MaxListLen) \ {<< >>}

\* repr(item).encode(): the bytes of the printed form of the item, the digit
\* for an int and the digit between two quotes for a str.
repr_encode(item) ==
  IF item.type = "str" THEN <<39, 48 + item.val, 39>> ELSE <<48 + item.val>>

RECURSIVE Sha256From(_, _)

\* The hash of a byte string, from the running value h.
Sha256From(h, bytes) ==
  IF bytes = << >> THEN h
  ELSE Sha256From((h * 33 + Head(bytes)) % Modulus, Tail(bytes))

\* hashlib.sha256(bytes).digest(), scaled down.
Sha256(bytes) == Sha256From(0, bytes)

\* UnorderedSha256(): the value of a new accumulator.
UnorderedSha256_init == 0

\* UnorderedSha256.update_data(bytes): the hash of the record is added to
\* the running value.
UnorderedSha256_update_data(h, bytes) == (h + Sha256(bytes)) % Modulus

\* UnorderedSha256.digest(): the running value, which it leaves as it is.
UnorderedSha256_digest(h) == [hash |-> h, value |-> h]

\* Mutation of MetricBase.__init__: one accumulator for the whole class.
unordered_hash_of_class(e) == 0

\* self.unordered_hash of evaluator e: the accumulator object made in
\* MetricBase.__init__, a new one for each evaluator.
unordered_hash(e) == e

RECURSIVE Concat(_)

\* The byte strings of the items of data_list, one after another.
Concat(data_list) ==
  IF data_list = << >> THEN << >>
  ELSE repr_encode(Head(data_list)) \o Concat(Tail(data_list))

\* Mutation of MetricBase._hash_relevant_data: the printed forms of the
\* items are joined and folded in as one record.
MetricBase_hash_relevant_data_joined(h, data_list) ==
  UnorderedSha256_update_data(h, Concat(data_list))

RECURSIVE MetricBase_hash_relevant_data_set(_, _)

\* Mutation of MetricBase._hash_relevant_data: the loop runs over
\* set(data_list), an item that occurs twice is folded in once.
MetricBase_hash_relevant_data_set(h, data_list) ==
  IF data_list = << >> THEN h
  ELSE LET item == Head(data_list)
           rest == Tail(data_list)
       IN  IF \E i \in DOMAIN rest : rest[i] = item
             THEN MetricBase_hash_relevant_data_set(h, rest)
             ELSE MetricBase_hash_relevant_data_set(
                    UnorderedSha256_update_data(h, repr_encode(item)), rest)

RECURSIVE MetricBase_hash_relevant_data(_, _)

\* MetricBase._hash_relevant_data(self, data_list): every item is folded
\* into the accumulator, front to back.
MetricBase_hash_relevant_data(h, data_list) ==
  IF data_list = << >> THEN h
  ELSE MetricBase_hash_relevant_data(
         UnorderedSha256_update_data(h, repr_encode(Head(data_list))),
         Tail(data_list))

\* Mutation of MetricBase._hashvalue: reading the digest starts the
\* accumulator anew.
MetricBase_hashvalue_resets(h) ==
  [hash |-> UnorderedSha256_init, value |-> UnorderedSha256_digest(h).value]

\* MetricBase._hashvalue(self): the digest of the accumulator.
MetricBase_hashvalue(h) == UnorderedSha256_digest(h)

\* The accumulator objects MetricBase.__init__ has made.
Accumulators == {unordered_hash(e) : e \in Evals}

\* The state of the fingerprints after construction.
HashInit ==
  /\ accumulator = [h \in Accumulators |-> UnorderedSha256_init]
  /\ fed = [e \in Evals |-> << >>]
  /\ hash_call = [op |-> "init", obj |-> 0, n |-> 0, value |-> -1]

(* --------------------------------------------------------------- threads *)

\* The threads of the caller.
Threads == {1, 2}

\* How a call ended: the exception, the evaluator whose method raised it and
\* the depth of that frame, or the value returned.
Outcome(op, e, exc, by, depth, ret) ==
  [op |-> op, obj |-> e, exc |-> exc, by |-> by, depth |-> depth, ret |-> ret]

\* No thread has called anything.
ThreadInit ==
  /\ stack = [t \in Threads |-> << >>]
  /\ outcome = [t \in Threads |-> Outcome("init", 0, NoExc, 0, 0, EmptyDict)]

(* --------------------------------------------------------------- actions *)

\* The record of a call.  ret is the mapping close returned; forward and
\* add_metric return None, and a call that raises returns nothing: ret is
\* the empty mapping then and is not read.
Call(op, e, arg, data, r) ==
  [op |-> op, obj |-> e, arg |-> arg, data |-> data,
   exc |-> r.exc, ret |-> r.ret, log |-> r.log]

Init ==
  /\ closed = MetricBase_init
  /\ metric_list = MetricChain_init
  /\ emits \in EmitChoices
  /\ last = [op |-> "init", obj |-> 0, arg |-> NotAMetric, data |-> NoData,
             exc |-> NoExc, ret |-> EmptyDict, log |-> << >>]
  /\ HashInit
  /\ ThreadInit

\* The caller invokes e.forward(data).
Forward(e, data) ==
  LET r == forward(Frame(closed), e, data, 1)
  IN  /\ closed' = r.closed
      /\ last' = Call("forward", e, NotAMetric, data, r)
      /\ UNCHANGED <<metric_list, emits, hvars, tvars>>

\* The caller invokes e.close().
Close(e) ==
  LET r == close(Frame(closed), e, 1)
  IN  /\ closed' = r.closed
      /\ last' = Call("close", e, NotAMetric, NoData, r)
      /\ UNCHANGED <<metric_list, emits, hvars, tvars>>

\* The caller invokes c.add_metric(metric).
AddMetric(c, metric) ==
  LET r == MetricChain_add_metric(c, metric)
  IN  /\ IsMetric(metric) => Registrations < MaxRegistrations
      /\ metric_list' = [metric_list EXCEPT ![c] = r.list]
      /\ last' = [op |-> "add_metric", obj |-> c, arg |-> metric, data |-> NoData,
                  exc |-> r.exc, ret |-> EmptyDict, log |-> << >>]
      /\ UNCHANGED <<closed, emits, hvars, tvars>>

Next ==
  \/ \E e \in Evals, data \in DataValues : Forward(e, data)
  \/ \E e \in Evals : Close(e)
  \/ \E c \in Chains, metric \in MetricArgs : AddMetric(c, metric)

Spec == Init /\ [][Next]_vars

(* --------------------------------------------------- fingerprint actions *)

Fed == Len(fed[1]) + Len(fed[2]) + Len(fed[3]) + Len(fed[4])

\* The caller invokes e._hash_relevant_data(data_list).
HashRelevantData(e, data_list) ==
  /\ Fed + Len(data_list) <= MaxItems
  /\ accumulator' = [accumulator EXCEPT
                       ![unordered_hash(e)] = MetricBase_hash_relevant_data(@, data_list)]
  /\ fed' = [fed EXCEPT ![e] = @ \o data_list]
  /\ hash_call' = [op |-> "_hash_relevant_data", obj |-> e,
                   n |-> Len(data_list), value |-> -1]
  /\ UNCHANGED <<mvars, tvars>>

\* The caller invokes e._hashvalue().
HashValue(e) ==
  LET r == MetricBase_hashvalue(accumulator[unordered_hash(e)])
  IN  /\ accumulator' = [accumulator EXCEPT ![unordered_hash(e)] = r.hash]
      /\ hash_call' = [op |-> "_hashvalue", obj |-> e, n |-> 0, value |-> r.value]
      /\ UNCHANGED <<mvars, fed, tvars>>

\* A chain of two leaves, built with chain.add_metric(leaf) twice, and the
\* accumulators as the constructors left them.
HashSpecInit ==
  /\ closed = MetricBase_init
  /\ metric_list = [MetricChain_init EXCEPT ![1] = <<3, 4>>]
  /\ emits = [e \in Leaves |-> EmptyDict]
  /\ last = [op |-> "add_metric", obj |-> 1, arg |-> Ref(4), data |-> NoData,
             exc |-> NoExc, ret |-> EmptyDict, log |-> << >>]
  /\ HashInit
  /\ ThreadInit

\* The chain and its two children.
HashEvals == {1, 3, 4}

HashNext ==
  \/ \E e \in HashEvals, data_list \in DataLists : HashRelevantData(e, data_list)
  \/ \E e \in HashEvals : HashValue(e)
  \/ \E data \in DataValues : Forward(1, data)
  \/ Close(1)

\* Fingerprint calls on a chain and its children, between the lifecycle
\* calls on the chain.
SpecHash == HashSpecInit /\ [][HashNext]_vars

(* ------------------------------------------- calls, statement by statement *)

\* Total number of successful add_metric calls in a run of SpecCalls.
MaxLinks == 2

\* The frame of e.op(data) on entry.  pc is the statement the frame is at,
\* i the position of the loop in self.metric_list, res the local res of
\* MetricChain.close.
Entry(op, e, data) ==
  [op |-> op, obj |-> e, data |-> data,
   pc |-> IF op = "forward" THEN "check" ELSE "test", i |-> 1, res |-> EmptyDict]

\* Mutation of the for statement: the loop stays at the same entry.
ForNext_same_entry(i) == i

\* for metric in self.metric_list: the loop moves on to the next entry.
ForNext(i) == i + 1

\* raise exc, in the frame of e at the given depth: no method catches
\* anything, the call of the thread ends.
Throw(t, e, depth, exc) ==
  /\ stack' = [stack EXCEPT ![t] = << >>]
  /\ outcome' = [outcome EXCEPT ![t] = Outcome(@.op, @.obj, exc, e, depth, EmptyDict)]

\* return ret, from the top frame of thread t: the call of the thread ends,
\* or the loop of the calling chain goes on, after res.update(ret) in close.
Return(t, ret) ==
  LET st == stack[t]
      d == Len(st)
  IN  IF d = 1
        THEN /\ stack' = [stack EXCEPT ![t] = << >>]
             /\ outcome' = [outcome EXCEPT ![t] = Outcome(@.op, @.obj, NoExc, 0, 0, ret)]
        ELSE /\ stack' = [stack EXCEPT ![t] =
                            Append(SubSeq(st, 1, d - 2),
                                   [st[d - 1] EXCEPT
                                      !.i = ForNext(@),
                                      !.res = IF st[d - 1].op = "close"
                                                THEN DictUpdate(@, ret) ELSE @])]
             /\ UNCHANGED outcome

\* metric.op(data) called from the top frame of thread t.
Enter(t, op, e, data) ==
  /\ stack' = [stack EXCEPT ![t] = Append(@, Entry(op, e, data))]
  /\ UNCHANGED outcome

\* The top frame of thread t is at this statement of this method.
At(t, op, pc) ==
  /\ stack[t] # << >>
  /\ stack[t][Len(stack[t])].op = op
  /\ stack[t][Len(stack[t])].pc = pc

\* The top frame of thread t moves to another statement.
Goto(t, pc) ==
  /\ stack' = [stack EXCEPT ![t][Len(stack[t])].pc = pc]
  /\ UNCHANGED outcome

\* Thread t calls e.forward(data) or e.close().
Begin(t, op, e, data) ==
  /\ stack[t] = << >>
  /\ stack' = [stack EXCEPT ![t] = <<Entry(op, e, data)>>]
  /\ outcome' = [outcome EXCEPT ![t] = Outcome(op, e, "running", 0, 0, EmptyDict)]
  /\ UNCHANGED <<mvars, hvars>>

\* MetricBase.forward: the closed check and the type check; a leaf returns
\* after them, a chain goes on to its loop.  A chain runs it by
\* super().forward(data), in one more frame: when the interpreter has none
\* left, RecursionError is raised in MetricChain.forward.
MetricBase_forward_step(t) ==
  /\ At(t, "forward", "check")
  /\ LET d == Len(stack[t])
         f == stack[t][d]
     IN  IF f.obj \in Chains /\ d + 1 > RecursionLimit
           THEN Throw(t, f.obj, d, "RecursionError")
           ELSE IF closed[f.obj]
             THEN Throw(t, f.obj, d, "ValueError")
             ELSE IF ~IsDict(f.data)
               THEN Throw(t, f.obj, d, "TypeError")
               ELSE IF f.obj \in Chains THEN Goto(t, "loop") ELSE Return(t, EmptyDict)
  /\ UNCHANGED <<mvars, hvars>>

\* MetricChain.forward, one turn of the loop: metric.forward(data) on the
\* next child, or the return after the last one.  The frame of the child is
\* the one super().forward(data) had, so the interpreter has it.
MetricChain_forward_step(t) ==
  /\ At(t, "forward", "loop")
  /\ LET d == Len(stack[t])
         f == stack[t][d]
     IN  IF f.i > Len(metric_list[f.obj])
           THEN Return(t, EmptyDict)
           ELSE Enter(t, "forward", metric_list[f.obj][f.i], f.data)
  /\ UNCHANGED <<mvars, hvars>>

\* MetricBase.close, the test: if not self.closed.
MetricBase_close_test(t) ==
  /\ At(t, "close", "test")
  /\ LET d == Len(stack[t])
         f == stack[t][d]
     IN  IF closed[f.obj]
           THEN Throw(t, f.obj, d, "RuntimeError")
           ELSE Goto(t, "set")
  /\ UNCHANGED <<mvars, hvars>>

\* MetricBase.close, the assignment: self.closed = True, return {}; a leaf
\* returns the results of its class, a chain goes on to its loop.
MetricBase_close_set(t) ==
  /\ At(t, "close", "set")
  /\ LET f == stack[t][Len(stack[t])]
     IN  /\ closed' = [closed EXCEPT ![f.obj] = TRUE]
         /\ IF f.obj \in Chains
              THEN Goto(t, "loop")
              ELSE Return(t, DictUpdate(EmptyDict, emits[f.obj]))
  /\ UNCHANGED <<metric_list, emits, last, hvars>>

\* MetricChain.close, one turn of the loop: metric.close() on the next
\* child, or return res after the last one.
MetricChain_close_step(t) ==
  /\ At(t, "close", "loop")
  /\ LET f == stack[t][Len(stack[t])]
     IN  IF f.i > Len(metric_list[f.obj])
           THEN Return(t, f.res)
           ELSE Enter(t, "close", metric_list[f.obj][f.i], NoData)
  /\ UNCHANGED <<mvars, hvars>>

\* Thread t executes the next statement of its call.
Step(t) ==
  \/ MetricBase_forward_step(t)
  \/ MetricChain_forward_step(t)
  \/ MetricBase_close_test(t)
  \/ MetricBase_close_set(t)
  \/ MetricChain_close_step(t)

\* Two threads call forward and close on a chain of two leaves that was
\* built with chain.add_metric(leaf) twice.  The code takes no lock, so the
\* statements of the two calls interleave.
ThreadsNext ==
  \/ \E t \in Threads, data \in DataValues : Begin(t, "forward", 1, data)
  \/ \E t \in Threads : Begin(t, "close", 1, NoData)
  \/ \E t \in Threads : Step(t)

SpecThreads == HashSpecInit /\ [][ThreadsNext]_vars

\* One thread builds chains with add_metric, of leaves and of chains, and
\* calls forward and close on them.
CallsAddMetric(c, metric) ==
  /\ stack[1] = << >>
  /\ IsMetric(metric)
  /\ Registrations < MaxLinks
  /\ AddMetric(c, metric)

CallsNext ==
  \/ \E c \in Chains, metric \in MetricArgs : CallsAddMetric(c, metric)
  \/ \E c \in Chains, data \in DataValues : Begin(1, "forward", c, data)
  \/ \E c \in Chains : Begin(1, "close", c, NoData)
  \/ Step(1)

\* A call that was begun is executed to its end.
SpecCalls == Init /\ [][CallsNext]_vars /\ WF_vars(Step(1))

(* ------------------------------------------------- reading the last call *)

LogIdx == DOMAIN last.log

\* self.closed = True was executed on e during the last call.
SetDuring(e) == \E i \in LogIdx : last.log[i].op = "closed" /\ last.log[i].obj = e

\* The value of e.closed when the last call began.
PreClosed(e) == closed[e] /\ ~SetDuring(e)

\* The last call was e.op(...), made by the caller.
IsCall(op, e) == last.op = op /\ last.obj = e

Succeeded == last.exc = NoExc

\* Number of entries of the last call's trace with this operation and object.
CountEv(op, e) == Cardinality({i \in LogIdx : last.log[i].op = op /\ last.log[i].obj = e})

\* An evaluator whose close is MetricBase.close and nothing more: a leaf whose
\* class adds no result, or a chain without children.
Plain(e) ==
  \/ e \in Leaves /\ emits[e] = EmptyDict
  \/ e \in Chains /\ metric_list[e] = << >>

(* ------------------------------------------------------------ lifecycle *)

\* C1: a closed evaluator stays closed in every step, and every forward or
\* close call made on a closed evaluator ends in an exception.
C1_ClosedIsPermanent ==
  [][\A e \in Evals :
       closed[e] =>
         /\ closed'[e]
         /\ (last'.op \in {"forward", "close"} /\ last'.obj = e) => last'.exc # NoExc]_vars

\* C1 witness: forward was called on a leaf that close() had closed, and raised.
C1_Witness ==
  /\ last.op = "forward"
  /\ last.obj \in Leaves
  /\ PreClosed(last.obj)
  /\ IsDict(last.data)
  /\ last.exc = "ValueError"

\* C2 (as claimed): every forward and every close on a closed evaluator raises
\* the same kind of error, the ValueError the docstring of close names.
C2_SameErrorKind ==
  [][\A e \in Evals :
       (closed[e] /\ last'.op \in {"forward", "close"} /\ last'.obj = e)
         => last'.exc = "ValueError"]_vars

\* C3: close() on an open plain evaluator (a MetricBase, or a chain without
\* children) returns normally with the empty mapping and leaves it closed.
C3_FreshCloseSucceeds ==
  \A e \in Evals :
    (IsCall("close", e) /\ ~PreClosed(e) /\ Plain(e))
      => (Succeeded /\ last.ret = EmptyDict /\ DOMAIN last.ret = {} /\ closed[e])

\* C3 witness: the first call ever made is close() on a chain without children,
\* beside it a plain leaf that is still open; the call returned {}.
C3_Witness ==
  /\ IsCall("close", 1)
  /\ metric_list = MetricChain_init
  /\ Succeeded
  /\ last.ret = EmptyDict
  /\ closed = [MetricBase_init EXCEPT ![1] = TRUE]
  /\ emits[3] = EmptyDict

(* ---------------------------------------------------------------- chains *)

\* The calls of this operation a chain made on its own children during the
\* last call made on it by the caller, in the order they were made.
Direct(op) == SelectSeq(last.log, LAMBDA ev : ev.op = op /\ ev.depth = 2)

Objs(seq) == [i \in DOMAIN seq |-> seq[i].obj]

Range(seq) == {seq[i] : i \in DOMAIN seq}

\* The children of chain c are leaf evaluators, no chains.
LeafChain(c) == Range(metric_list[c]) \subseteq Leaves

\* Number of calls of this operation made on e by chains during the last call.
CountChildCalls(op, e) ==
  Cardinality({i \in LogIdx : /\ last.log[i].op = op
                              /\ last.log[i].obj = e
                              /\ last.log[i].depth >= 2})

\* Number of times MetricBase.forward accepted this batch on e during the last call.
CountAccepted(e, data) ==
  Cardinality({i \in LogIdx : /\ last.log[i].op = "accepted"
                              /\ last.log[i].obj = e
                              /\ last.log[i].data = data})

\* C4 (as claimed, for chains of leaf evaluators): close() on an open chain
\* calls close() on every child in metric_list exactly once, in registration
\* order, after setting the chain's own closed flag.
C4_EachChildClosedOnce ==
  \A c \in Chains :
    (IsCall("close", c) /\ ~PreClosed(c) /\ LeafChain(c)) =>
      /\ Objs(Direct("close")) = metric_list[c]
      /\ \A m \in Range(metric_list[c]) : CountChildCalls("close", m) = 1
      /\ Len(last.log) >= 2
      /\ last.log[2].op = "closed" /\ last.log[2].obj = c /\ last.log[2].depth = 1

\* The mapping a successful close() of e returns according to the merge rule:
\* the keys of all children, each with the value of the last child that has it.
RECURSIVE Emitted(_)
Emitted(e) ==
  IF e \in Leaves
    THEN emits[e]
    ELSE LET L == metric_list[e]
             keys == UNION {DOMAIN Emitted(L[i]) : i \in DOMAIN L}
             latest(k) == CHOOSE i \in DOMAIN L :
                            /\ k \in DOMAIN Emitted(L[i])
                            /\ \A j \in DOMAIN L : k \in DOMAIN Emitted(L[j]) => j <= i
         IN  [k \in keys |-> Emitted(L[latest(k)])[k]]

\* C5: the mapping a successful chain.close() returns has the union of the
\* children's keys, and for each key the value of the latest-registered child
\* that emits it.
C5_LastWriteWinsMerge ==
  \A c \in Chains :
    (IsCall("close", c) /\ Succeeded) =>
      LET L == metric_list[c]
      IN  /\ DOMAIN last.ret = UNION {DOMAIN Emitted(L[i]) : i \in DOMAIN L}
          /\ \A k \in DOMAIN last.ret :
               \E i \in DOMAIN L :
                 /\ k \in DOMAIN Emitted(L[i])
                 /\ \A j \in DOMAIN L : k \in DOMAIN Emitted(L[j]) => j <= i
                 /\ last.ret[k] = Emitted(L[i])[k]

\* C5 witness: E1 emitting {a: 1} and E2 emitting {a: 2, b: 3} were registered
\* in this order and the chain's close returned {a: 2, b: 3}.
C5_Witness ==
  /\ IsCall("close", 1)
  /\ Succeeded
  /\ metric_list[1] = <<3, 4>>
  /\ emits[3] = [k \in {"a"} |-> 1]
  /\ DOMAIN last.ret = {"a", "b"}
  /\ last.ret["a"] = 2
  /\ last.ret["b"] = 3

\* C6 (as claimed, for chains of leaf evaluators): a successful forward(batch)
\* on a chain delivers the batch to every registered child exactly once, in
\* registration order.
C6_FanOutExactlyOnce ==
  \A c \in Chains :
    (IsCall("forward", c) /\ Succeeded /\ LeafChain(c)) =>
      /\ Objs(Direct("forward")) = metric_list[c]
      /\ \A m \in Range(metric_list[c]) : CountAccepted(m, last.data) = 1

\* C7: forward on a closed chain raises ValueError, changes no closed flag and
\* calls no child: everything the call did happened in the chain's own frame.
C7_ClosedChainForwardTouchesNoChild ==
  [][\A c \in Chains :
       (closed[c] /\ last'.op = "forward" /\ last'.obj = c) =>
         /\ last'.exc = "ValueError"
         /\ closed' = closed
         /\ \A i \in DOMAIN last'.log :
              last'.log[i].obj = c /\ last'.log[i].depth = 1]_vars

\* C7 witness: forward(batch) raised on a closed chain whose first child is
\* open and would have accepted the batch.
C7_Witness ==
  /\ IsCall("forward", 1)
  /\ IsDict(last.data)
  /\ PreClosed(1)
  /\ metric_list[1] # << >>
  /\ metric_list[1][1] \in Leaves
  /\ ~closed[metric_list[1][1]]
  /\ last.exc = "ValueError"

\* The entries of the last call's trace, made in a chain's calls on its own
\* children, in which MetricBase.forward accepted the batch.
DirectAccepted == SelectSeq(last.log, LAMBDA ev : ev.op = "accepted" /\ ev.depth = 2)

\* The chain itself accepted the batch in the last call (super().forward returned).
ChainAccepted(c) ==
  \E i \in LogIdx :
    last.log[i].op = "accepted" /\ last.log[i].obj = c /\ last.log[i].depth = 1

\* C8: when a child raises during chain.forward(batch), the call ends with
\* that exception at once; the chain has called forward on the entries of
\* metric_list up to the raising one, in order, and on none after it; the
\* entries before it have accepted the batch; the chain is still open.
C8_ChildErrorPropagates ==
  \A c \in Chains :
    (IsCall("forward", c) /\ ChainAccepted(c) /\ ~Succeeded) =>
      LET L == metric_list[c]
          k == Len(Direct("forward"))
          n == Len(last.log)
      IN  /\ 1 <= k /\ k <= Len(L)
          /\ Objs(Direct("forward")) = SubSeq(L, 1, k)
          /\ Len(DirectAccepted) \in {k - 1, k}
          /\ SubSeq(Objs(DirectAccepted), 1, k - 1) = SubSeq(L, 1, k - 1)
          /\ \A i \in 1..(k - 1) : DirectAccepted[i].data = last.data
          /\ last.log[n].op = "raise"
          /\ last.log[n].depth >= 2
          /\ last.log[n].exc = last.exc
          /\ Cardinality({i \in LogIdx : last.log[i].op = "raise"}) = 1
          /\ ~closed[c]

\* C8 witness: a chain of three different children whose second child is
\* closed: the first accepted the batch, the second raised, the third was
\* not called.
C8_Witness ==
  /\ IsCall("forward", 1)
  /\ last.exc = "ValueError"
  /\ Len(metric_list[1]) = 3
  /\ Cardinality(Range(metric_list[1])) = 3
  /\ 1 \notin Range(metric_list[1])
  /\ Objs(Direct("forward")) = SubSeq(metric_list[1], 1, 2)
  /\ CountAccepted(metric_list[1][1], last.data) = 1
  /\ CountEv("forward", metric_list[1][3]) = 0
  /\ ~closed[1]

\* C9 (as claimed, for leaf evaluators and chains of leaf evaluators): a
\* forward or close call that raises leaves every closed flag as it was
\* before the call.
C9_FailedCallChangesNothing ==
  [][(/\ last'.op \in {"forward", "close"}
      /\ last'.exc # NoExc
      /\ last'.obj \in Chains => LeafChain(last'.obj))
       => closed' = closed]_vars

\* C10: forward(data) with data that is no dict on an open evaluator raises
\* TypeError, changes no closed flag and, on a chain, calls no child.
C10_NonDictRejected ==
  [][\A e \in Evals :
       (~closed[e] /\ last'.op = "forward" /\ last'.obj = e /\ ~IsDict(last'.data)) =>
         /\ last'.exc = "TypeError"
         /\ closed' = closed
         /\ \A i \in DOMAIN last'.log :
              last'.log[i].obj = e /\ last'.log[i].depth = 1]_vars

\* C10 witness: forward of a list on an open chain with an open child raised
\* TypeError.
C10_Witness ==
  /\ IsCall("forward", 1)
  /\ ~IsDict(last.data)
  /\ ~closed[1]
  /\ metric_list[1] # << >>
  /\ metric_list[1][1] \in Leaves
  /\ ~closed[metric_list[1][1]]
  /\ last.exc = "TypeError"

(* ------------------------------------------------------------ add_metric *)

\* The objects of the calls of this operation made at depth 2 in a trace.
DirectObjs(log, op) == Objs(SelectSeq(log, LAMBDA ev : ev.op = op /\ ev.depth = 2))

IsPrefix(s, l) == Len(s) <= Len(l) /\ s = SubSeq(l, 1, Len(s))

\* C11: add_metric with an argument that is no evaluator raises TypeError and
\* leaves metric_list as it was; with an evaluator it appends it at the end;
\* no other call changes metric_list; and forward and close of a chain call
\* the children in the order of metric_list (all of them when the call
\* returns normally).
C11_RegistrationOrder ==
  [][/\ \A c \in Chains :
          (last'.op = "add_metric" /\ last'.obj = c) =>
            IF IsMetric(last'.arg)
              THEN /\ last'.exc = NoExc
                   /\ metric_list' = [metric_list EXCEPT ![c] = Append(@, last'.arg.id)]
              ELSE /\ last'.exc = "TypeError"
                   /\ metric_list' = metric_list
     /\ last'.op # "add_metric" => metric_list' = metric_list
     /\ \A c \in Chains :
          (last'.op \in {"forward", "close"} /\ last'.obj = c) =>
            /\ IsPrefix(DirectObjs(last'.log, last'.op), metric_list[c])
            /\ last'.exc = NoExc => DirectObjs(last'.log, last'.op) = metric_list[c]]_vars

\* C11 witness: a second, different evaluator was accepted and stands at the
\* end of metric_list.
C11_Witness ==
  /\ IsCall("add_metric", 1)
  /\ IsMetric(last.arg)
  /\ Succeeded
  /\ Len(metric_list[1]) = 2
  /\ metric_list[1][2] = last.arg.id
  /\ metric_list[1][1] # metric_list[1][2]

(* -------------------------------------------------- order of the checks *)

\* The exception of the last call was raised by e itself, in the caller's
\* call and before anything else was done.
RaisedAtEntry(e, exc) ==
  /\ last.exc = exc
  /\ Len(last.log) = 2
  /\ last.log[2] = Ev("raise", e, 1, NoData, exc)

\* C18: forward looks at the closed flag before it looks at the type of its
\* argument: on a closed evaluator it raises the closed-state error
\* (ValueError) whatever the argument is, and a TypeError is raised only by an
\* open evaluator given a non-mapping.
C18_ClosedCheckedBeforeType ==
  \A e \in Evals :
    IsCall("forward", e) =>
      /\ closed[e] => RaisedAtEntry(e, "ValueError")
      /\ last.exc = "TypeError" => ~closed[e] /\ ~IsDict(last.data)

\* C18 witness: a non-mapping was given to a closed chain that has children,
\* and the error is the closed-state one.
C18_Witness ==
  /\ IsCall("forward", 1)
  /\ closed[1]
  /\ ~IsDict(last.data)
  /\ metric_list[1] # << >>
  /\ last.exc = "ValueError"

(* ------------------------------------------- closed chain, closed children *)

AllChildrenClosed(cl, ml, c) == \A m \in Range(ml[c]) : cl[m]

\* C17: a chain whose close() has returned normally has only closed children:
\* here, in the state in which close() returned normally and in the state the
\* next call leaves.
C17_ClosedChainHasClosedChildren ==
  [][\A c \in Chains :
       (IsCall("close", c) /\ Succeeded) =>
         /\ AllChildrenClosed(closed, metric_list, c)
         /\ closed'[c] => AllChildrenClosed(closed', metric_list', c)]_vars

(* ----------------------------------------------------------- fingerprints *)

IntOne == [type |-> "int", val |-> 1]
StrOne == [type |-> "str", val |-> 1]

\* What e._hashvalue() returns in this state.
Digest(e) == MetricBase_hashvalue(accumulator[unordered_hash(e)]).value

\* Number of occurrences of the item in a stream.
Count(seq, item) == Cardinality({i \in DOMAIN seq : seq[i] = item})

\* Two streams with the same items the same number of times.
SameMultiset(s1, s2) == \A item \in Items : Count(s1, item) = Count(s2, item)

\* Two streams that differ in how many times one item occurs, and in nothing
\* else.
DifferInOneCount(s1, s2) ==
  \E item \in Items :
    /\ Count(s1, item) # Count(s2, item)
    /\ \A other \in Items \ {item} : Count(s1, other) = Count(s2, other)

\* C12: the digest does not depend on the order or the grouping in which the
\* items were given to _hash_relevant_data: two evaluators that were given
\* the same multiset of items, in whatever order and split into whatever
\* data_lists, have the same digest.
C12_OrderIndependent ==
  \A e1 \in Evals, e2 \in Evals :
    SameMultiset(fed[e1], fed[e2]) => Digest(e1) = Digest(e2)

\* C12 witness: two evaluators were given the same two items in opposite
\* orders, the second one in two calls.
C12_Witness ==
  /\ fed[3] = <<IntOne, StrOne>>
  /\ fed[4] = <<StrOne, IntOne>>
  /\ hash_call.op = "_hash_relevant_data"
  /\ hash_call.obj = 4
  /\ hash_call.n = 1
  /\ Digest(3) = Digest(4)
  /\ Digest(3) # UnorderedSha256_init

\* The sum of the hashes of the items of a stream, each counted as many
\* times as it occurs.
SumOfHashes(seq) ==
  (Count(seq, IntOne) * Sha256(repr_encode(IntOne))
     + Count(seq, StrOne) * Sha256(repr_encode(StrOne))) % Modulus

\* C13, as stated: every item given to _hash_relevant_data is folded in once
\* for each occurrence, none dropped and none merged, so that two streams
\* that differ only in how many times one item occurs have different digests.
C13_MultiplicitySensitive ==
  /\ \A e \in Evals : Digest(e) = SumOfHashes(fed[e])
  /\ \A e1 \in Evals, e2 \in Evals :
       DifferInOneCount(fed[e1], fed[e2]) => Digest(e1) # Digest(e2)

\* The difference of the two numbers, without its sign.
Distance(m, n) == IF m >= n THEN m - n ELSE n - m

\* C13, amended: every item given to _hash_relevant_data is folded in once
\* for each occurrence, none dropped and none merged; two streams that differ
\* only in how many times one item occurs have different digests unless the
\* fixed-width sum wraps around, which it does exactly when the hash of the
\* item times the difference in count is a multiple of the digest range.
C13_MultiplicitySensitiveUpToWrapAround ==
  /\ \A e \in Evals : Digest(e) = SumOfHashes(fed[e])
  /\ \A e1 \in Evals, e2 \in Evals, item \in Items :
       (/\ Count(fed[e1], item) # Count(fed[e2], item)
        /\ \A other \in Items \ {item} : Count(fed[e1], other) = Count(fed[e2], other))
         => (Digest(e1) = Digest(e2)
               <=> (Distance(Count(fed[e1], item), Count(fed[e2], item))
                      * Sha256(repr_encode(item))) % Modulus = 0)

\* C13 witness: one evaluator was given {A, A, B}, another {A, B}.
C13_Witness ==
  /\ Count(fed[3], IntOne) = 2
  /\ Count(fed[3], StrOne) = 1
  /\ Count(fed[4], IntOne) = 1
  /\ Count(fed[4], StrOne) = 1
  /\ Digest(3) # Digest(4)

\* C14: reading the digest has no side effect: a _hashvalue() call returns
\* the digest of the state it finds and leaves every accumulator as it was,
\* so that a second read returns the same value and later updates start from
\* the same state.
C14_DigestReadHasNoEffect ==
  [][hash_call'.op = "_hashvalue" =>
       /\ accumulator' = accumulator
       /\ hash_call'.value = Digest(hash_call'.obj)
       /\ \A e \in Evals : Digest(e)' = Digest(e)
       /\ (hash_call.op = "_hashvalue" /\ hash_call.obj = hash_call'.obj)
            => hash_call'.value = hash_call.value]_vars

\* C14 witness: the digest of an evaluator that was given items was read,
\* and the accumulator still has that value.
C14_Witness ==
  /\ hash_call.op = "_hashvalue"
  /\ hash_call.obj = 3
  /\ Len(fed[3]) = 2
  /\ hash_call.value = Digest(3)
  /\ hash_call.value = SumOfHashes(fed[3])
  /\ hash_call.value # UnorderedSha256_init

\* C15: every evaluator, a chain included, has an accumulator of its own,
\* new when nothing was given to it; forward and close of a chain change no
\* accumulator, the chain's own and its children's included; and
\* _hash_relevant_data on one evaluator changes the digest of no other.
C15_AccumulatorsIndependent ==
  [][/\ \A e \in Evals : fed'[e] = << >> => Digest(e)' = UnorderedSha256_init
     /\ last' # last => accumulator' = accumulator
     /\ \A e \in Evals :
          (hash_call'.op = "_hash_relevant_data" /\ hash_call'.obj = e) =>
            \A other \in Evals \ {e} : Digest(other)' = Digest(other)]_vars

\* C15 witness: items were given to one child, none to its sibling or to the
\* chain, and the chain was closed after that.
C15_Witness ==
  /\ fed[3] # << >>
  /\ fed[4] = << >>
  /\ fed[1] = << >>
  /\ Digest(3) # UnorderedSha256_init
  /\ Digest(4) = UnorderedSha256_init
  /\ Digest(1) = UnorderedSha256_init
  /\ IsCall("close", 1)
  /\ Succeeded
  /\ closed[3]

(* ----------------------------------------------------------- concurrency *)

\* C16: calls made by several threads on the same chain exclude one
\* another, each takes effect wholly or not at all: a forward that passed
\* the open check of the chain does not find a child closed by the close of
\* another thread, that is, a forward on the chain that raises the
\* closed-state error raises it in the chain's own check and not in a child.
C16_CallsExcludeOneAnother ==
  \A t \in Threads :
    (outcome[t].op = "forward" /\ outcome[t].exc = "ValueError") =>
      (outcome[t].by = outcome[t].obj /\ outcome[t].depth = 1)

(* ----------------------------------------------------------- termination *)

\* C19: every forward and every close of a chain comes to its end, by a
\* return or by an exception, whatever was registered in the chain and in
\* the chains below it, the chain itself included.
C19_EveryCallTerminates == (stack[1] # << >>) ~> (stack[1] = << >>)

\* C19 witness: forward on a chain registered in itself has ended, with the
\* RecursionError of the interpreter, raised in the innermost forward of the
\* chain.
C19_Witness ==
  /\ metric_list[1] = <<1>>
  /\ stack[1] = << >>
  /\ outcome[1].op = "forward"
  /\ outcome[1].obj = 1
  /\ outcome[1].exc = "RecursionError"
  /\ outcome[1].by = 1
  /\ outcome[1].depth = RecursionLimit

====
